---- MODULE Spec2Model ----
(***************************************************************************)
(* EM fitting of a Gaussian mixture model (P4/gmm.py, class GMM), for      *)
(* one-dimensional data (D = 1): a covariance matrix is a 1x1 matrix, its  *)
(* rank is 0 iff its entry is 0, its inverse is the reciprocal and its     *)
(* determinant is the entry.                                               *)
(*                                                                         *)
(* Numbers.  A numpy float r is held as the integer r * Scale, truncated   *)
(* (fixed point), or as one of the two IEEE values the code can produce    *)
(* without raising: NaN (0/0 in a numpy division) and NegInf (np.log(0)).  *)
(* exp, log and sqrt are computed on that representation, so exp           *)
(* underflows to 0 as it does in float64, only sooner.                     *)
(***************************************************************************)
EXTENDS Integers, Sequences, FiniteSets, TLC

\* ------------------------------------------------------------------ bounds
Scale == 1000
NumPoints == 3
NumClusters == 2
MaxIter == 2
MaxCount == 2

\* the data values (reals, before scaling) and the tolerances (scaled) drawn;
\* fit does not depend on the order of the rows, so datasets are drawn sorted
XVals == {0, 1, 5}
Tolerances == {Scale \div 100, 2 * Scale}

\* ----------------------------------------------------------- float values
NaN == -2000000001
NegInf == -2000000002

IsNum(a) == a # NaN /\ a # NegInf

\* a + b, a * b (fixed point), a / b of numpy floats
FAdd(a, b) == IF a = NaN \/ b = NaN THEN NaN
              ELSE IF a = NegInf \/ b = NegInf THEN NegInf
              ELSE a + b

FMul(a, b) == IF ~IsNum(a) \/ ~IsNum(b) THEN NaN ELSE (a * b) \div Scale

\* numpy division: 0/0 is nan (a RuntimeWarning, no exception); the code never
\* divides a non-zero number by zero (numerator and denominator are sums of
\* the same non-negative terms)
FDiv(a, b) == IF ~IsNum(a) \/ ~IsNum(b) THEN NaN
              ELSE IF b = 0 THEN NaN
              ELSE (a * Scale) \div b

\* a / n for an integer count n
FDivInt(a, n) == IF ~IsNum(a) THEN NaN
                 ELSE IF n = 0 THEN NaN
                 ELSE a \div n

\* np.absolute(a - b) < eps: false as soon as a or b is nan or -inf
AbsDiffLess(a, b, eps) ==
    /\ IsNum(a)
    /\ IsNum(b)
    /\ (IF a >= b THEN a - b ELSE b - a) < eps

\* np.exp(-t) for t >= 0
RECURSIVE ExpNeg(_)
ExpNeg(t) ==
    IF t >= 20 * Scale THEN 0
    ELSE IF t >= Scale THEN (ExpNeg(t - Scale) * ((367879 * Scale) \div 1000000)) \div Scale
    ELSE LET t2 == (t * t) \div Scale
             t3 == (t2 * t) \div Scale
             t4 == (t3 * t) \div Scale
             t5 == (t4 * t) \div Scale
             t6 == (t5 * t) \div Scale
         IN  Scale - t + (t2 \div 2) - (t3 \div 6) + (t4 \div 24) - (t5 \div 120)
               + (t6 \div 720)

\* np.sqrt(n) for n >= 0 (n and the result scaled)
RECURSIVE SqrtIter(_, _)
SqrtIter(n, r) ==
    LET r2 == (r + (n \div r)) \div 2
    IN  IF r2 >= r THEN r ELSE SqrtIter(n, r2)

Sqrt(n) == IF n = 0 THEN 0 ELSE SqrtIter(n * Scale, n * Scale)

\* np.log(m): -inf at 0, nan at nan
RECURSIVE Log(_)
Log(m) ==
    IF m = NaN THEN NaN
    ELSE IF m = 0 THEN NegInf
    ELSE IF m >= 2 * Scale THEN Log(m \div 2) + ((693147 * Scale) \div 1000000)
    ELSE IF m < Scale THEN Log(2 * m) - ((693147 * Scale) \div 1000000)
    ELSE LET z  == ((m - Scale) * Scale) \div (m + Scale)
             z2 == (z * z) \div Scale
             z3 == (z * z2) \div Scale
             z5 == (z3 * z2) \div Scale
         IN  2 * (z + (z3 \div 3) + (z5 \div 5))

RECURSIVE SumTo(_, _)
SumTo(f, n) == IF n = 0 THEN 0 ELSE FAdd(SumTo(f, n - 1), f[n])

FSub(a, b) == IF ~IsNum(a) \/ ~IsNum(b) THEN NaN ELSE a - b

\* ------------------------------------------------------------------ state
VARIABLES
    x,                  \* the data passed to fit: N rows, one column, scaled
    x_ndim,             \* len(x.shape)
    init, max_iter, e,  \* GMM.__init__ arguments (n_cluster is NumClusters)
    means, variances,   \* self.means, self.variances; fit's locals means and
                        \* variances are the same arrays (lines 102-103)
    self_pi_k,          \* self.pi_k
    pi_k,               \* fit's local pi_k (rebound at line 122)
    gamma_ik, mass, N_k,\* responsibilities, their row totals, component masses
    l, l_new,           \* baseline and new log-likelihood
    iter,               \* loop counter of line 106
    number_of_updates,  \* << >> while unbound, <<n>> once assigned (line 125)
    pc,                 \* position inside fit, "idle" outside of a call
    outcome, result,    \* how the last call ended and what it returned
    em_steps,           \* number of M-steps completed by the running fit
    prev                \* the parameters the running iteration started from

vars == <<x, x_ndim, init, max_iter, e, means, variances, self_pi_k, pi_k,
          gamma_ik, mass, N_k, l, l_new, iter, number_of_updates, pc,
          outcome, result, em_steps, prev>>

None == << >>
K == NumClusters
N == NumPoints
Pts == 1..N
Comps == 1..K

config == <<x, x_ndim, init, max_iter, e>>
params == <<means, variances, self_pi_k>>
locals == <<pi_k, gamma_ik, mass, N_k, l, l_new, iter, number_of_updates,
            em_steps, prev>>

\* ----------------------------------------------------------- Gaussian_pdf
TwoPi == (628319 * Scale) \div 100000
RegEps == Scale \div 1000

\* np.linalg.matrix_rank(variance) < D, D = 1, for a finite variance
RankDeficient(variance) == variance = 0

\* the regularisation added in place (variance += ...), into the caller's array
Gaussian_pdf_InPlace(mean, variance) ==
    LET reg == IF variance = NaN THEN NaN
               ELSE IF variance = 0 THEN (Scale \div 1000) + variance
               ELSE variance
    IN  [mean |-> mean, variance |-> reg,
         c |-> FMul((628319 * Scale) \div 100000, reg), arg |-> reg]

\* Gaussian_pdf.__init__ : the instance's own variance and
\* c = (2 pi)^D * det(variance).  Line 225 binds self.variance to a new array
\* (regularisation + self.variance), so the array passed in, a view of the
\* model's variances[k], holds afterwards what it held before: field arg.
\* inv is the reciprocal of .variance; getLikelihood divides by .variance
\* instead of multiplying by inv, the same number at full precision.
Gaussian_pdf(mean, variance) ==
    LET reg == IF variance = NaN THEN NaN
               ELSE IF RankDeficient(variance) THEN RegEps + variance
               ELSE variance
    IN  [mean |-> mean, variance |-> reg, c |-> FMul(TwoPi, reg),
         arg |-> variance]

\* the arrays vs[k] after one Gaussian_pdf was built from each
ArgsAfter(ms, vs) == [k \in Comps |-> Gaussian_pdf(ms[k], vs[k]).arg]

\* getLikelihood: exp(-0.5 * boo' inv boo) / sqrt(c)
getLikelihood(g, xi) ==
    IF ~IsNum(g.mean) \/ ~IsNum(g.variance) THEN NaN
    ELSE LET boo  == xi - g.mean
             quad == (boo * boo) \div g.variance
         IN  (ExpNeg(quad \div 2) * Scale) \div Sqrt(g.c)

\* np.linalg.matrix_rank on a nan matrix: the SVD either raises LinAlgError
\* or returns nan singular values (rank 0), depending on the LAPACK build
HasNaNVariance(vs) == \E k \in Comps : vs[k] = NaN

\* ------------------------------------------------- compute_log_likelihood
LogLikelihood(xx, ms, vs, ps) ==
    LET inst == [k \in Comps |-> Gaussian_pdf(ms[k], vs[k])]
        normal == [i \in Pts |-> [k \in Comps |->
                      FMul(ps[k], getLikelihood(inst[k], xx[i]))]]
        sumnormal == [i \in Pts |-> SumTo(normal[i], K)]
    IN  SumTo([i \in Pts |-> Log(sumnormal[i])], N)

\* lines 173-178: a parameter left out is the model's own
compute_log_likelihood(xx, ms, vs, ps) ==
    LogLikelihood(xx,
                  IF ms = None THEN means ELSE ms,
                  IF vs = None THEN variances ELSE vs,
                  IF ps = None THEN self_pi_k ELSE ps)

\* ----------------------------------------------------------- collaborators
\* KMeans.fit(self, x): K centres and a hard assignment of every point.  Any
\* assignment; a non-empty cluster's centre is its centroid, an empty
\* cluster's centre is one of the data points.
Members(assign, k) == {i \in Pts : assign[i] = k}

Centroid(xx, S) == SumTo([i \in Pts |-> IF i \in S THEN xx[i] ELSE 0], N)
                       \div Cardinality(S)

KMeansResults(xx) ==
    {[mu |-> [k \in Comps |-> IF Members(a, k) = {} THEN c
                              ELSE Centroid(xx, Members(a, k))],
      assign |-> a] : a \in [Pts -> Comps], c \in {xx[i] : i \in Pts}}

\* np.random.seed(42); np.random.rand(K, D): the first K draws of the stream
Rand42 == <<(374540 * Scale) \div 1000000, (950714 * Scale) \div 1000000,
            (731993 * Scale) \div 1000000, (598658 * Scale) \div 1000000>>

\* -------------------------------------------------------------------- Init
NoLocals ==
    /\ pi_k = None /\ gamma_ik = None /\ mass = None /\ N_k = None
    /\ l = 0 /\ l_new = 0 /\ iter = 0 /\ number_of_updates = None
    /\ em_steps = 0 /\ prev = None

Init ==
    /\ x \in [Pts -> {v * Scale : v \in XVals}]
    /\ \A i \in Pts : i < N => x[i] <= x[i + 1]
    /\ x_ndim \in {1, 2}
    /\ x_ndim = 1 => x = [i \in Pts |-> 0]
    /\ init \in {"k_means", "random", "kmeans++"}
    /\ max_iter \in 0..MaxIter
    /\ e \in Tolerances
    /\ means = None /\ variances = None /\ self_pi_k = None
    /\ NoLocals
    /\ pc = "idle" /\ outcome = "none" /\ result = None

\* ---------------------------------------------------------------- helpers
\* an exception leaves the call
Raise(exc) == pc' = "idle" /\ outcome' = exc /\ result' = None

\* eq 7: sum_i gamma[i,k] * outer(x_i - mu, x_i - mu) / N_k[k]
Covariance(xx, gam, mu, nk) ==
    FDiv(SumTo([i \in Pts |->
                   FMul(gam[i], FMul(FSub(xx[i], mu), FSub(xx[i], mu)))], N),
         nk)

\* eq 6: sum_i gamma[i,k] * x_i / N_k[k]
WeightedMean(xx, gam, nk) ==
    FDiv(SumTo([i \in Pts |-> FMul(xx[i], gam[i])], N), nk)

Column(gam, k) == [i \in Pts |-> gam[i][k]]

ColumnSums(gam) == [k \in Comps |-> SumTo(Column(gam, k), N)]

\* the component masses taken as the weights, the division by N left out
Weights_NotDivided(nk) == nk

\* N_k / N
Weights(nk) == [k \in Comps |-> FDivInt(nk[k], N)]

\* range(self.max_iter): the position after the loop test
LoopTest(i) == IF i < max_iter THEN "estep" ELSE "store"

\* --------------------------------------------------------------- GMM.fit
\* what fit's locals hold before line 101 (l, l_new, iter: not yet bound)
FreshLocals ==
    /\ mass' = None /\ l' = 0 /\ l_new' = 0 /\ iter' = 0
    /\ number_of_updates' = None /\ em_steps' = 0 /\ prev' = None

\* lines 50-63: initialisation from k-means
FitInitKMeans ==
    /\ \E r \in KMeansResults(x) :
          LET gam == [i \in Pts |-> [k \in Comps |->
                         IF r.assign[i] = k THEN Scale ELSE 0]]
              nk  == ColumnSums(gam)
          IN  /\ gamma_ik' = gam
              /\ N_k' = nk
              /\ means' = r.mu
              /\ variances' = [k \in Comps |->
                     Covariance(x, Column(gam, k), r.mu[k], nk[k])]
              /\ self_pi_k' = Weights(nk)
              /\ pi_k' = Weights(nk)
    /\ pc' = "baseline" /\ outcome' = "running" /\ result' = None
    /\ FreshLocals

\* lines 75-86: random means, identity covariances, uniform weights
FitInitRandom ==
    /\ means' = [k \in Comps |-> Rand42[k]]
    /\ variances' = [k \in Comps |-> Scale]
    /\ self_pi_k' = [k \in Comps |-> FDivInt(Scale, K)]
    /\ pi_k' = [k \in Comps |-> FDivInt(Scale, K)]
    /\ N_k' = [k \in Comps |-> FDivInt(N * Scale, K)]
    /\ gamma_ik' = [i \in Pts |-> [k \in Comps |-> 0]]
    /\ pc' = "baseline" /\ outcome' = "running" /\ result' = None
    /\ FreshLocals

\* the policy is checked only after the model was given random parameters
FitInitInvalid_AfterInitialising ==
    /\ Raise("Exception")
    /\ means' = [k \in Comps |-> Rand42[k]]
    /\ variances' = [k \in Comps |-> Scale]
    /\ self_pi_k' = [k \in Comps |-> FDivInt(Scale, K)]
    /\ UNCHANGED locals

\* lines 91-92: any other policy
FitInitInvalid ==
    /\ Raise("Exception")
    /\ UNCHANGED <<params, locals>>

\* lines 38-92: shape assertion and initialisation; a model is fitted once
FitInit ==
    /\ pc = "idle"
    /\ means = None
    /\ UNCHANGED config
    /\ IF x_ndim # 2 THEN Raise("AssertionError") /\ UNCHANGED <<params, locals>>
       ELSE IF init = "k_means" THEN FitInitKMeans
       ELSE IF init = "random" THEN FitInitRandom
       ELSE FitInitInvalid

\* lines 101-106: the baseline log-likelihood, then the first loop test
FitBaseline ==
    /\ pc = "baseline"
    /\ UNCHANGED <<config, means, self_pi_k, pi_k, gamma_ik, mass, N_k, l_new,
                   iter, number_of_updates, em_steps, prev>>
    /\ \/ /\ HasNaNVariance(variances)
          /\ Raise("LinAlgError")
          /\ UNCHANGED <<variances, l>>
       \/ /\ l' = compute_log_likelihood(x, None, None, None)
          /\ variances' = ArgsAfter(means, variances)
          /\ pc' = LoopTest(0)
          /\ UNCHANGED <<outcome, result>>

\* lines 109-113: E step
EStep ==
    /\ pc = "estep"
    /\ UNCHANGED <<config, means, self_pi_k, pi_k, N_k, l, l_new, iter,
                   number_of_updates, em_steps>>
    /\ \/ /\ HasNaNVariance(variances)
          /\ Raise("LinAlgError")
          /\ UNCHANGED <<variances, gamma_ik, mass, prev>>
       \/ LET inst == [k \in Comps |-> Gaussian_pdf(means[k], variances[k])]
              Normal == [i \in Pts |-> [k \in Comps |->
                            getLikelihood(inst[k], x[i])]]
              w == [i \in Pts |-> [k \in Comps |-> FMul(pi_k[k], Normal[i][k])]]
              rows == [i \in Pts |-> SumTo(w[i], K)]
          IN  /\ mass' = rows
              /\ gamma_ik' = [i \in Pts |-> [k \in Comps |->
                                 FDiv(w[i][k], rows[i])]]
              /\ variances' = ArgsAfter(means, variances)
              /\ prev' = [means |-> means, variances |-> variances,
                          pi_k |-> pi_k]
              /\ pc' = "mmeans"
              /\ UNCHANGED <<outcome, result>>

\* lines 115-117: component masses, then every mean
MStepMeans ==
    /\ pc = "mmeans"
    /\ N_k' = ColumnSums(gamma_ik)
    /\ means' = [k \in Comps |->
                    WeightedMean(x, Column(gamma_ik, k), ColumnSums(gamma_ik)[k])]
    /\ pc' = "mvars"
    /\ UNCHANGED <<config, variances, self_pi_k, pi_k, gamma_ik, mass, l, l_new,
                   iter, number_of_updates, outcome, result, em_steps, prev>>

\* residuals taken against the means the E-step used
MStepVariances_OldMean ==
    /\ pc = "mvars"
    /\ variances' = [k \in Comps |->
                        Covariance(x, Column(gamma_ik, k), prev.means[k], N_k[k])]
    /\ pc' = "mweights"
    /\ UNCHANGED <<config, means, self_pi_k, pi_k, gamma_ik, mass, N_k, l, l_new,
                   iter, number_of_updates, outcome, result, em_steps, prev>>

\* lines 118-121: every covariance, residuals against means[k]
MStepVariances ==
    /\ pc = "mvars"
    /\ variances' = [k \in Comps |->
                        Covariance(x, Column(gamma_ik, k), means[k], N_k[k])]
    /\ pc' = "mweights"
    /\ UNCHANGED <<config, means, self_pi_k, pi_k, gamma_ik, mass, N_k, l, l_new,
                   iter, number_of_updates, outcome, result, em_steps, prev>>

\* line 122: the local name pi_k is rebound; self.pi_k is not touched
MStepWeights ==
    /\ pc = "mweights"
    /\ pi_k' = Weights(N_k)
    /\ em_steps' = em_steps + 1
    /\ pc' = "check"
    /\ UNCHANGED <<config, params, gamma_ik, mass, N_k, l, l_new, iter,
                   number_of_updates, outcome, result, prev>>

\* line 127 left out: the baseline stays the initial log-likelihood
ConvergenceCheck_KeepsBaseline ==
    /\ pc = "check"
    /\ UNCHANGED <<config, means, self_pi_k, pi_k, gamma_ik, mass, N_k,
                   em_steps, prev>>
    /\ \/ /\ HasNaNVariance(variances)
          /\ Raise("LinAlgError")
          /\ UNCHANGED <<variances, l, l_new, iter, number_of_updates>>
       \/ /\ l_new' = compute_log_likelihood(x, None, None, None)
          /\ variances' = ArgsAfter(means, variances)
          /\ UNCHANGED <<outcome, result, l>>
          /\ IF AbsDiffLess(l, l_new', e)
             THEN /\ number_of_updates' = <<iter>>
                  /\ pc' = "store"
                  /\ UNCHANGED iter
             ELSE /\ iter' = IF iter + 1 < max_iter THEN iter + 1 ELSE iter
                  /\ pc' = LoopTest(iter + 1)
                  /\ UNCHANGED number_of_updates

\* lines 123-127 and the loop test of line 106
ConvergenceCheck ==
    /\ pc = "check"
    /\ UNCHANGED <<config, means, self_pi_k, pi_k, gamma_ik, mass, N_k,
                   em_steps, prev>>
    /\ \/ /\ HasNaNVariance(variances)
          /\ Raise("LinAlgError")
          /\ UNCHANGED <<variances, l, l_new, iter, number_of_updates>>
       \/ /\ l_new' = compute_log_likelihood(x, None, None, None)
          /\ variances' = ArgsAfter(means, variances)
          /\ UNCHANGED <<outcome, result>>
          /\ IF AbsDiffLess(l, l_new', e)
             THEN /\ number_of_updates' = <<iter>>
                  /\ pc' = "store"
                  /\ UNCHANGED <<l, iter>>
             ELSE /\ l' = l_new'
                  /\ iter' = IF iter + 1 < max_iter THEN iter + 1 ELSE iter
                  /\ pc' = LoopTest(iter + 1)
                  /\ UNCHANGED number_of_updates

\* the number of E/M steps executed is returned instead of the loop counter
FitReturn_CountsSteps ==
    /\ pc = "store"
    /\ self_pi_k' = pi_k
    /\ pc' = "idle"
    /\ IF number_of_updates = None
       THEN outcome' = "UnboundLocalError" /\ result' = None
       ELSE outcome' = "returned" /\ result' = number_of_updates[1] + 1
    /\ UNCHANGED <<config, means, variances, locals>>

\* lines 128-131
FitReturn ==
    /\ pc = "store"
    /\ self_pi_k' = pi_k
    /\ pc' = "idle"
    /\ IF number_of_updates = None
       THEN outcome' = "UnboundLocalError" /\ result' = None
       ELSE outcome' = "returned" /\ result' = number_of_updates[1]
    /\ UNCHANGED <<config, means, variances, locals>>

\* ------------------------------------------------------------- GMM.sample
SampleArgs == {[type |-> "int", val |-> v] : v \in (0 - 1)..MaxCount}
                  \cup {[type |-> "float", val |-> 1]}

\* the drawn vectors are not modelled; result is the number of rows returned
Sample(n) ==
    /\ pc = "idle"
    /\ UNCHANGED <<config, params, locals>>
    /\ IF ~(n.type = "int" /\ n.val > 0) THEN Raise("AssertionError")
       ELSE IF means = None THEN Raise("Exception")
       ELSE IF \E k \in Comps : self_pi_k[k] = NaN THEN Raise("ValueError")
       ELSE \/ /\ \E k \in Comps : self_pi_k[k] > 0 /\ variances[k] = NaN
               /\ Raise("LinAlgError")
            \/ /\ pc' = "idle" /\ outcome' = "samples" /\ result' = n.val

\* --------------------------------------------- GMM.compute_log_likelihood
\* the pi_k argument: left out, or uniform weights
LogLikelihoodArgs == {None, [k \in Comps |-> FDivInt(Scale, K)]}

\* called from outside fit, on the data x, with or without explicit weights
ComputeLogLikelihood(ps) ==
    /\ pc = "idle"
    /\ UNCHANGED <<config, means, self_pi_k, locals>>
    /\ IF x_ndim # 2 THEN Raise("AssertionError") /\ UNCHANGED variances
       ELSE IF means = None THEN Raise("TypeError") /\ UNCHANGED variances
       ELSE \/ /\ HasNaNVariance(variances)
               /\ Raise("LinAlgError")
               /\ UNCHANGED variances
            \/ /\ pc' = "idle" /\ outcome' = "loglik"
               /\ result' = compute_log_likelihood(x, None, None, ps)
               /\ variances' = ArgsAfter(means, variances)

Next ==
    \/ FitInit
    \/ FitBaseline
    \/ EStep
    \/ MStepMeans
    \/ MStepVariances
    \/ MStepWeights
    \/ ConvergenceCheck
    \/ FitReturn
    \/ \E n \in SampleArgs : Sample(n)
    \/ \E ps \in LogLikelihoodArgs : ComputeLogLikelihood(ps)

Spec == Init /\ [][Next]_vars

\* ================================================================= claims
Abs(a) == IF a >= 0 THEN a ELSE 0 - a

InIteration == pc \in {"mmeans", "mvars", "mweights", "check"}

\* an iteration's convergence check has run and fit is still in its call
AfterCheck == em_steps > 0 /\ pc \in {"estep", "store"}

\* every number of the run is finite
Finite(s) == \A k \in DOMAIN s : IsNum(s[k])

FiniteRun == IsNum(l) /\ IsNum(l_new) /\ Finite(means) /\ Finite(variances)
                 /\ Finite(pi_k)

\* fit ended after the loop ran out without any iteration converging
BudgetExhausted ==
    /\ pc = "idle"
    /\ outcome \in {"returned", "UnboundLocalError"}
    /\ number_of_updates = None
    /\ FiniteRun

\* what the rounding of the number representation may add up to in a
\* log-likelihood
LLSlack == Scale \div 10

\* C1: when no iteration satisfies the tolerance, fit stops after exactly
\* max_iter E/M iterations, raises no error and returns max_iter.
C1_BudgetExhaustedReturnsMaxIter ==
    BudgetExhausted =>
        /\ em_steps = max_iter
        /\ outcome = "returned"
        /\ result = max_iter

\* C2: the log-likelihood compared in an iteration's convergence check is the
\* log-likelihood of the data under the means, covariances and mixture
\* weights that iteration's M-step produced.
\* (up to rounding)
C2_CheckUsesNewParameters ==
    (AfterCheck /\ FiniteRun) =>
        Abs(l_new - LogLikelihood(x, means, variances, pi_k)) <= LLSlack

\* C3: a returned iteration count is <= max_iter, and when fit returns before
\* the budget is used up, the log-likelihoods of the data under the last
\* iteration's parameters and under the parameters it started from differ by
\* less than the tolerance (up to rounding).
C3_ReturnedWithinTolerance ==
    outcome = "returned" =>
        /\ result <= max_iter
        /\ result < max_iter =>
              AbsDiffLess(LogLikelihood(x, means, variances, self_pi_k),
                          LogLikelihood(x, prev.means, prev.variances, prev.pi_k),
                          e + LLSlack)

RoundTol == 2 * K

IsDistribution(p) ==
    /\ \A k \in Comps : IsNum(p[k]) /\ p[k] >= 0
    /\ Abs(SumTo(p, K) - Scale) <= RoundTol

MassPositive == mass = None \/ \A i \in Pts : IsNum(mass[i]) /\ mass[i] > 0

C5_WeightsAreDistribution ==
    MassPositive =>
        /\ pi_k # None => IsDistribution(pi_k)
        /\ self_pi_k # None => IsDistribution(self_pi_k)

C5_Witness ==
    /\ outcome = "returned"
    /\ em_steps > 1
    /\ MassPositive
    /\ self_pi_k # [k \in Comps |-> FDivInt(Scale, K)]

\* C6: an E-step in which a data point has zero total responsibility mass
\* fails there: fit does not go on into the M-step and returns no count.
C6_ZeroMassFailsInEStep ==
    (InIteration \/ outcome = "returned") =>
        (mass # None => \A i \in Pts : mass[i] # 0)

\* C7: fit with an unsupported initialisation policy and sample with a count
\* that is not a positive integer raise, and leave means, covariances and
\* weights as they were before the call.
C7_InvalidConfigurationNoMutation ==
    [][/\ (x_ndim = 2 /\ init \notin {"k_means", "random"} /\ FitInit)
            => (outcome' = "Exception" /\ params' = params)
       /\ \A n \in SampleArgs :
            (~(n.type = "int" /\ n.val > 0) /\ Sample(n))
                => (outcome' = "AssertionError" /\ params' = params)]_vars

C7_Witness == outcome = "AssertionError" /\ means # None /\ x_ndim = 2

\* C8: sample and compute_log_likelihood called on a model leave its means,
\* covariances and weights as they were, also when a Gaussian component
\* regularises a rank-deficient covariance: a step that changes a parameter
\* is no step of sample or compute_log_likelihood.
C8_QueriesAreReadOnly ==
    [][params' = params
          \/ ~((\E n \in SampleArgs : Sample(n))
                 \/ (\E ps \in LogLikelihoodArgs : ComputeLogLikelihood(ps)))]_vars

C8_Witness ==
    /\ pc = "idle"
    /\ outcome = "loglik"
    /\ \E k \in Comps : RankDeficient(variances[k])

\* C9: in an M-step every mean is updated before any covariance is computed,
\* each covariance takes its residuals against the mean this M-step produced,
\* and means, covariances and weights all come from the responsibilities of
\* this iteration's E-step.
C9_MStepOrder ==
    /\ pc \in {"mvars", "mweights", "check"} =>
          /\ N_k = ColumnSums(gamma_ik)
          /\ means = [k \in Comps |->
                         WeightedMean(x, Column(gamma_ik, k), N_k[k])]
    /\ pc \in {"mweights", "check"} =>
          variances = [k \in Comps |->
                          Covariance(x, Column(gamma_ik, k), means[k], N_k[k])]
    /\ pc = "check" => pi_k = Weights(ColumnSums(gamma_ik))

C9_Witness ==
    /\ pc = "mweights"
    /\ \E k \in Comps :
          /\ IsNum(variances[k])
          /\ variances[k] #
                Covariance(x, Column(gamma_ik, k), prev.means[k], N_k[k])

\* C10: the baseline of the first comparison is the log-likelihood of the
\* initial parameters, computed once before the first E-step; in a later
\* iteration it is the log-likelihood computed at the end of the iteration
\* before; and it is replaced only when an iteration's convergence test fails.
C10_Baseline ==
    /\ [](/\ (pc = "estep" /\ em_steps = 0) =>
                l = LogLikelihood(x, means, variances, self_pi_k)
          /\ ((pc = "estep" \/ InIteration) /\ em_steps > 0 /\ pc # "check") =>
                l = l_new
          /\ (pc = "check" /\ em_steps > 1) => l = l_new)
    /\ [][l' # l =>
             \/ pc = "baseline"
             \/ pc = "check" /\ ~AbsDiffLess(l, l_new', e) /\ l' = l_new']_vars

C10_Witness == pc = "check" /\ iter > 0 /\ IsNum(l) /\ l # 0

====
